---- MODULE Spec2Model ----
(***************************************************************************)
(* Model of commit-gen's session cache (internal/cache/session_cache.go),  *)
(* of its diff size governor (internal/git/diff.go), of the server-mode    *)
(* run of the generator (internal/generator/commit.go) and of the git hook *)
(* (internal/hook/install.go).                                             *)
(*                                                                         *)
(* Seven specifications share the variables below:                         *)
(*   Spec      the session cache, one caller, every method one step        *)
(*   SpecConc  the session cache, several goroutines, sync.RWMutex steps   *)
(*   SpecDiff  GetStagedDiffWithLimit / summarizeDiff / truncateDiffSmart  *)
(*   SpecOnce  several goroutines calling GetCache, sync.Once steps        *)
(*   SpecLock  the locking of the methods alone, under fair scheduling     *)
(*   SpecGen   generateWithServer over the session cache, step by step     *)
(*   SpecHook  Install / Uninstall / IsInstalled over the hook files       *)
(***************************************************************************)
EXTENDS Integers, Sequences, FiniteSets, TLC

VARIABLES
    constructed,  \* once.Do has run: instance is set
    cache,        \* sc.cache: [isNil |-> BOOLEAN, m |-> key -> CachedSession]
    ttl,          \* sc.ttl
    disk,         \* content of <cachedir>/sessions.json
    now,          \* the clock read by time.Now / time.Since
    crashed,      \* a call has panicked: the process is gone
    warned,       \* the load error GetCache printed as a warning ("nil": none)
    lastSet,      \* history: per repository, the last Set that inserted
    cleared,      \* history: Clear has run and no Set was called since
    lastWrite,    \* history: outcome of the most recent save()
    faults,       \* environment: the saves the file system has failed so far
    pc,           \* SpecConc: position of every goroutine
    rw,           \* SpecConc: state of sc.mu
    call,         \* SpecConc: the call every goroutine is executing
    dIn,          \* SpecDiff: the collaborators' outputs and maxSize
    dOut,         \* SpecDiff: the *DiffResult and error returned
    once,         \* the sync.Once of GetCache: [done, m], m the holder of its mutex
    instance,     \* history: the SessionCache values constructed so far; the
                  \* package variable instance points to the last (nil: none)
    got,          \* SpecOnce: what the last GetCache of every goroutine returned
    gen,          \* SpecGen: the run of generateWithServer in progress
    hook          \* SpecHook: the prepare-commit-msg files and the last call

cacheVars == <<constructed, cache, ttl, disk, now, crashed, warned, lastSet, cleared, lastWrite,
               faults>>
concVars  == <<pc, rw, call>>
diffVars  == <<dIn, dOut>>
onceVars  == <<once, instance, got>>
vars      == <<constructed, cache, ttl, disk, now, crashed, warned, lastSet, cleared,
               lastWrite, faults, pc, rw, call, dIn, dOut, once, instance, got, gen,
               hook>>

----------------------------------------------------------------------------
(* Bounds *)

MaxTicks == 2
MaxFaults == 1
NumProcs == 2
MaxLines == 3

\* The TTLs GetCache is called with.
TTLs == {1}
LongestTTL == CHOOSE t \in TTLs : \A u \in TTLs : u <= t
\* The entries found on disk were written at time 0 and the process starts at
\* StartTime: they are at the very end of their life under the longest TTL.
StartTime == LongestTTL
MaxTime == StartTime + MaxTicks

Repos == {"/a", "/b"}
SessionIDs == {"s1", "s2"}
\* The cache directory the program is configured with, and another one that
\* holds no sessions.json.
CacheDir == "/cache"
Dirs == {CacheDir, "/other"}
\* What git rev-parse --show-toplevel yields outside a repository.
NoRepo == "(no repository)"

----------------------------------------------------------------------------
(* time.Time and its JSON form *)

\* time.Now(): a wall clock reading that carries a monotonic reading.
TimeNow == [wall |-> now, mono |-> TRUE]

\* time.Since(t); the wall and the monotonic clock advance together here.
Since(t) == now - t.wall

\* A formatter of coarser precision than the clock (two ticks).
MarshalTime_Coarse(t) == (t.wall \div 2) * 2

\* Time.MarshalJSON: RFC 3339 with nanoseconds; the monotonic reading is dropped.
MarshalTime(t) == t.wall

\* Time.UnmarshalJSON: the instant, without a monotonic reading.
UnmarshalTime(w) == [wall |-> w, mono |-> FALSE]

\* Time.Equal: the same instant.
TimeEqual(t, u) == t.wall = u.wall

----------------------------------------------------------------------------
(* CachedSession, the map, and sessions.json *)

EmptyMap == [k \in {} |-> {}]
MadeCache == [isNil |-> FALSE, m |-> EmptyMap]
NilCache == [isNil |-> TRUE, m |-> EmptyMap]

hashRepoPath(path) == "md5:" \o path

NewSession(sessionID, repoPath) ==
    [SessionID |-> sessionID, RepoPath |-> repoPath,
     CreatedAt |-> TimeNow, LastUsedAt |-> TimeNow]

\* The json tags of CachedSession.
MarshalSession(s) ==
    [session_id |-> s.SessionID, repo_path |-> s.RepoPath,
     created_at |-> MarshalTime(s.CreatedAt),
     last_used_at |-> MarshalTime(s.LastUsedAt)]

UnmarshalSession(j) ==
    [SessionID |-> j.session_id, RepoPath |-> j.repo_path,
     CreatedAt |-> UnmarshalTime(j.created_at),
     LastUsedAt |-> UnmarshalTime(j.last_used_at)]

Missing == [kind |-> "missing", entries |-> EmptyMap]
Malformed == [kind |-> "malformed", entries |-> EmptyMap]
NullDoc == [kind |-> "null", entries |-> EmptyMap]
ObjectDoc(e) == [kind |-> "object", entries |-> e]

\* json.MarshalIndent(sc.cache, "", "  "): a nil map is written as null.
MarshalCache(c) ==
    IF c.isNil THEN NullDoc
    ELSE ObjectDoc([k \in DOMAIN c.m |-> MarshalSession(c.m[k])])

\* load(): what it returns and what it leaves in sc.cache, starting from c.
load(c, d) ==
    CASE d.kind = "missing" -> [err |-> "nil", cache |-> c]
      [] d.kind = "malformed" -> [err |-> "unmarshal", cache |-> c]
      [] d.kind = "null" -> [err |-> "nil", cache |-> NilCache]
      [] OTHER ->
            [err |-> "nil",
             cache |-> [isNil |-> FALSE,
                        m |-> [k \in DOMAIN d.entries |-> UnmarshalSession(d.entries[k])]]]

\* save(): os.MkdirAll, json.MarshalIndent, os.WriteFile. io is what the file
\* system does: "ok"; "open" (the directory cannot be created or the file cannot
\* be opened: the file is not touched); "write" (the file was opened with
\* O_TRUNC and the write failed: a strict prefix of the document is left, which
\* does not parse); "close" (the document was written and closing the file
\* reported an error).
SaveOutcomes == {"ok", "open", "write", "close"}

\* The outcomes the file system may still produce: at most MaxFaults saves fail.
IOs == IF faults < MaxFaults THEN SaveOutcomes ELSE {"ok"}

save(c, d, io) ==
    CASE io = "ok" -> [err |-> "nil", disk |-> MarshalCache(c)]
      [] io = "write" -> [err |-> "persist", disk |-> Malformed]
      [] io = "close" -> [err |-> "persist", disk |-> MarshalCache(c)]
      [] OTHER -> [err |-> "persist", disk |-> d]

----------------------------------------------------------------------------
(* The methods of SessionCache. Each yields the store as the call leaves it *)
(* and what the call returns: [cache, disk, ret]. ret.err is "nil" or the   *)
(* error ("panic" when the call does not return), ret.io what save() met.   *)

BaseRet ==
    [err |-> "nil", session |-> <<>>, total |-> 0, valid |-> 0,
     io |-> "none", warning |-> "nil"]

\* An entry that expires one tick early, when its age reaches the TTL.
Expired_AtTTL(s) == Since(s.CreatedAt) >= ttl

\* Get, line 65: if time.Since(session.CreatedAt) > sc.ttl
Expired(s) == Since(s.CreatedAt) > ttl

\* A Status for which an entry whose age equals the TTL is no longer valid.
StillValid_Strict(s) == Since(s.CreatedAt) < ttl

\* Status, line 124: if time.Since(session.CreatedAt) <= sc.ttl
StillValid(s) == Since(s.CreatedAt) <= ttl

\* A Get that deletes the expired entry it finds.
Get_Purge(root) ==
    LET key == hashRepoPath(root)
        r == BaseRet
    IN  IF root = NoRepo
        THEN [cache |-> cache, disk |-> disk, ret |-> [r EXCEPT !.err = "norepo"]]
        ELSE IF key \notin DOMAIN cache.m
        THEN [cache |-> cache, disk |-> disk, ret |-> r]
        ELSE IF Expired(cache.m[key])
        THEN [cache |-> [cache EXCEPT !.m = [k \in DOMAIN cache.m \ {key} |-> cache.m[k]]],
              disk |-> disk, ret |-> r]
        ELSE [cache |-> cache, disk |-> disk,
              ret |-> [r EXCEPT !.session = <<cache.m[key]>>]]

\* A Get that reports a failed resolution of the repository as a miss.
Get_AbsentOnNoRepo(root) ==
    LET key == hashRepoPath(root)
        r == BaseRet
    IN  IF root = NoRepo \/ key \notin DOMAIN cache.m
        THEN [cache |-> cache, disk |-> disk, ret |-> r]
        ELSE IF Expired(cache.m[key])
        THEN [cache |-> cache, disk |-> disk, ret |-> r]
        ELSE [cache |-> cache, disk |-> disk,
              ret |-> [r EXCEPT !.session = <<cache.m[key]>>]]

Get(root) ==
    LET key == hashRepoPath(root)
        r == BaseRet
    IN  IF root = NoRepo
        THEN [cache |-> cache, disk |-> disk, ret |-> [r EXCEPT !.err = "norepo"]]
        ELSE IF key \notin DOMAIN cache.m
        THEN [cache |-> cache, disk |-> disk, ret |-> r]
        ELSE IF Expired(cache.m[key])
        THEN [cache |-> cache, disk |-> disk, ret |-> r]
        ELSE [cache |-> cache, disk |-> disk,
              ret |-> [r EXCEPT !.session = <<cache.m[key]>>]]

\* A Set that takes the entry back when save() fails.
Set_Rollback(sessionID, root, io) ==
    LET key == hashRepoPath(root)
        r == BaseRet
        c2 == [isNil |-> FALSE,
               m |-> [k \in DOMAIN cache.m \cup {key} |->
                        IF k = key THEN NewSession(sessionID, root) ELSE cache.m[k]]]
        sv == save(c2, disk, io)
    IN  IF root = NoRepo
        THEN [cache |-> cache, disk |-> disk, ret |-> [r EXCEPT !.err = "norepo"]]
        ELSE IF cache.isNil
        THEN [cache |-> cache, disk |-> disk, ret |-> [r EXCEPT !.err = "panic"]]
        ELSE [cache |-> IF sv.err = "nil" THEN c2 ELSE cache, disk |-> sv.disk,
              ret |-> [r EXCEPT !.err = sv.err, !.io = io]]

\* sc.cache[key] = &CachedSession{...}: assignment to an entry of a nil map panics.
Set(sessionID, root, io) ==
    LET key == hashRepoPath(root)
        r == BaseRet
        c2 == [isNil |-> FALSE,
               m |-> [k \in DOMAIN cache.m \cup {key} |->
                        IF k = key THEN NewSession(sessionID, root) ELSE cache.m[k]]]
        sv == save(c2, disk, io)
    IN  IF root = NoRepo
        THEN [cache |-> cache, disk |-> disk, ret |-> [r EXCEPT !.err = "norepo"]]
        ELSE IF cache.isNil
        THEN [cache |-> cache, disk |-> disk, ret |-> [r EXCEPT !.err = "panic"]]
        ELSE [cache |-> c2, disk |-> sv.disk,
              ret |-> [r EXCEPT !.err = sv.err, !.io = io]]

\* The keys whose entry carries sessionID.
Matching(sessionID) == {k \in DOMAIN cache.m : cache.m[k].SessionID = sessionID}

\* An UpdateLastUsed that saves before it reports that nothing matched.
UpdateLastUsed_SaveAnyway(sessionID, first, io) ==
    LET r == BaseRet
        c2 == [cache EXCEPT !.m[first].LastUsedAt = TimeNow]
        sv == save(IF Matching(sessionID) = {} THEN cache ELSE c2, disk, io)
    IN  IF Matching(sessionID) = {}
        THEN [cache |-> cache, disk |-> sv.disk,
              ret |-> [r EXCEPT !.err = "notfound", !.io = io]]
        ELSE [cache |-> c2, disk |-> sv.disk,
              ret |-> [r EXCEPT !.err = sv.err, !.io = io]]

\* An UpdateLastUsed whose loop goes on after the first match: every entry
\* that carries sessionID is stamped.
UpdateLastUsed_All(sessionID, first, io) ==
    LET r == BaseRet
        c2 == [cache EXCEPT !.m = [k \in DOMAIN cache.m |->
                  IF k \in Matching(sessionID)
                  THEN [cache.m[k] EXCEPT !.LastUsedAt = TimeNow]
                  ELSE cache.m[k]]]
        sv == save(c2, disk, io)
    IN  IF Matching(sessionID) = {}
        THEN [cache |-> cache, disk |-> disk, ret |-> [r EXCEPT !.err = "notfound"]]
        ELSE [cache |-> c2, disk |-> sv.disk,
              ret |-> [r EXCEPT !.err = sv.err, !.io = io]]

\* An UpdateLastUsed that renews the entry: it stamps CreatedAt as well.
UpdateLastUsed_Renew(sessionID, first, io) ==
    LET r == BaseRet
        c2 == [cache EXCEPT !.m[first].LastUsedAt = TimeNow,
                            !.m[first].CreatedAt = TimeNow]
        sv == save(c2, disk, io)
    IN  IF Matching(sessionID) = {}
        THEN [cache |-> cache, disk |-> disk, ret |-> [r EXCEPT !.err = "notfound"]]
        ELSE [cache |-> c2, disk |-> sv.disk,
              ret |-> [r EXCEPT !.err = sv.err, !.io = io]]

\* for _, session := range sc.cache: the iteration order of a Go map is not
\* specified; first is the matching entry the loop meets first.
UpdateLastUsed(sessionID, first, io) ==
    LET r == BaseRet
        c2 == [cache EXCEPT !.m[first].LastUsedAt = TimeNow]
        sv == save(c2, disk, io)
    IN  IF Matching(sessionID) = {}
        THEN [cache |-> cache, disk |-> disk, ret |-> [r EXCEPT !.err = "notfound"]]
        ELSE [cache |-> c2, disk |-> sv.disk,
              ret |-> [r EXCEPT !.err = sv.err, !.io = io]]

\* A Clear that keeps the mapping when save() fails.
Clear_Rollback(io) ==
    LET sv == save(MadeCache, disk, io)
    IN  [cache |-> IF sv.err = "nil" THEN MadeCache ELSE cache, disk |-> sv.disk,
         ret |-> [BaseRet EXCEPT !.err = sv.err, !.io = io]]

Clear(io) ==
    LET sv == save(MadeCache, disk, io)
    IN  [cache |-> MadeCache, disk |-> sv.disk,
         ret |-> [BaseRet EXCEPT !.err = sv.err, !.io = io]]

Status ==
    [cache |-> cache, disk |-> disk,
     ret |-> [BaseRet EXCEPT
                !.total = Cardinality(DOMAIN cache.m),
                !.valid = Cardinality({k \in DOMAIN cache.m : StillValid(cache.m[k])})]]

\* A GetCache for which a load error is fatal: no instance is handed out.
GetCache_Strict(t) ==
    LET ld == load(MadeCache, disk)
    IN  IF constructed
        THEN [cache |-> cache, ttl |-> ttl, ret |-> BaseRet]
        ELSE [cache |-> ld.cache, ttl |-> t,
              ret |-> [BaseRet EXCEPT !.err = ld.err]]

\* GetCache: once.Do runs the constructor and load() the first time only; a
\* load error is printed as a warning and the instance is returned all the same.
GetCache(t) ==
    LET ld == load(MadeCache, disk)
    IN  IF constructed
        THEN [cache |-> cache, ttl |-> ttl, ret |-> BaseRet]
        ELSE [cache |-> ld.cache, ttl |-> t,
              ret |-> [BaseRet EXCEPT !.warning = ld.err]]

----------------------------------------------------------------------------
(* Spec: one caller *)

\* The documents a previous run of the program, or anything else, may have left.
InitEntries(r) ==
    {[session_id |-> s, repo_path |-> r, created_at |-> 0, last_used_at |-> 0] :
        s \in SessionIDs}

InitObjects ==
    UNION {{e \in [{hashRepoPath(r) : r \in R} -> UNION {InitEntries(r) : r \in R}] :
               \A r \in R : e[hashRepoPath(r)].repo_path = r} : R \in SUBSET Repos}

InitDisks == {Missing, Malformed, NullDoc} \cup {ObjectDoc(e) : e \in InitObjects}

IdleConc == /\ pc = <<>>
            /\ rw = <<>>
            /\ call = <<>>

IdleDiff == /\ dIn = <<>>
            /\ dOut = <<>>
            /\ gen = <<>>
            /\ hook = <<>>

\* once.Do has not run and instance is nil.
FreshOnce == [done |-> 0, m |-> 0]
\* once.Do has returned.
DoneOnce == [done |-> 1, m |-> 0]

NotConstructed ==
    /\ once = FreshOnce
    /\ instance = <<>>
    /\ got = <<>>

\* The record of a SessionCache constructed with ttl t over directory d.
Constructed(t, d, n) == [ttl |-> t, cachedir |-> d, loads |-> n]

Init ==
    /\ constructed = FALSE
    /\ cache = MadeCache
    /\ ttl = 0
    /\ disk \in InitDisks
    /\ now = StartTime
    /\ crashed = FALSE
    /\ warned = "nil"
    /\ lastSet = [r \in Repos |-> <<>>]
    /\ cleared = FALSE
    /\ lastWrite = "none"
    /\ faults = 0
    /\ IdleConc
    /\ IdleDiff
    /\ NotConstructed

\* The history of save(): what the most recent one met, and how many failed.
Saved(r) ==
    /\ lastWrite' = IF r.io = "none" THEN lastWrite
                    ELSE IF r.io = "ok" THEN "ok" ELSE "failed"
    /\ faults' = IF r.io \in {"none", "ok"} THEN faults ELSE faults + 1

GetCacheCall ==
    \E t \in TTLs :
        LET o == GetCache(t)
        IN  /\ ~crashed
            /\ constructed' = TRUE
            /\ cache' = o.cache
            /\ ttl' = o.ttl
            /\ warned' = IF constructed THEN warned ELSE o.ret.warning
            /\ once' = DoneOnce
            /\ instance' = IF constructed THEN instance
                            ELSE <<Constructed(t, CacheDir, 1)>>
            /\ UNCHANGED <<disk, now, crashed, lastSet, cleared, lastWrite, faults>>
            /\ UNCHANGED <<concVars, diffVars, got, gen, hook>>

GetCall ==
    \E root \in Repos \cup {NoRepo} :
        LET o == Get(root)
        IN  /\ constructed /\ ~crashed
            /\ cache' = o.cache
            /\ disk' = o.disk
            /\ crashed' = (o.ret.err = "panic")
            /\ UNCHANGED <<constructed, ttl, now, warned, lastSet, cleared, lastWrite, faults>>
            /\ UNCHANGED <<concVars, diffVars, onceVars, gen, hook>>

SetCall ==
    \E sessionID \in SessionIDs, root \in Repos \cup {NoRepo}, io \in IOs :
        LET o == Set(sessionID, root, io)
        IN  /\ constructed /\ ~crashed
            /\ cache' = o.cache
            /\ disk' = o.disk
            /\ crashed' = (o.ret.err = "panic")
            /\ lastSet' = IF root # NoRepo /\ ~cache.isNil
                          THEN [lastSet EXCEPT ![root] =
                                  <<[id |-> sessionID, at |-> now, ok |-> io = "ok"]>>]
                          ELSE lastSet
            /\ cleared' = FALSE
            /\ Saved(o.ret)
            /\ UNCHANGED <<constructed, ttl, now, warned>>
            /\ UNCHANGED <<concVars, diffVars, onceVars, gen, hook>>

TouchCall ==
    \E sessionID \in SessionIDs, io \in IOs :
        \E first \in IF Matching(sessionID) = {} THEN {""} ELSE Matching(sessionID) :
            LET o == UpdateLastUsed(sessionID, first, io)
            IN  /\ constructed /\ ~crashed
                /\ cache' = o.cache
                /\ disk' = o.disk
                /\ crashed' = (o.ret.err = "panic")
                /\ Saved(o.ret)
                /\ UNCHANGED <<constructed, ttl, now, warned, lastSet, cleared>>
                /\ UNCHANGED <<concVars, diffVars, onceVars, gen, hook>>

ClearCall ==
    \E io \in IOs :
        LET o == Clear(io)
        IN  /\ constructed /\ ~crashed
            /\ cache' = o.cache
            /\ disk' = o.disk
            /\ crashed' = (o.ret.err = "panic")
            /\ lastSet' = [r \in Repos |-> <<>>]
            /\ cleared' = TRUE
            /\ Saved(o.ret)
            /\ UNCHANGED <<constructed, ttl, now, warned>>
            /\ UNCHANGED <<concVars, diffVars, onceVars, gen, hook>>

StatusCall ==
    LET o == Status
    IN  /\ constructed /\ ~crashed
        /\ cache' = o.cache
        /\ disk' = o.disk
        /\ crashed' = (o.ret.err = "panic")
        /\ UNCHANGED <<constructed, ttl, now, warned, lastSet, cleared, lastWrite, faults>>
        /\ UNCHANGED <<concVars, diffVars, onceVars, gen, hook>>

\* Time passes between two calls.
Tick ==
    /\ ~crashed
    /\ now < MaxTime
    /\ now' = now + 1
    /\ UNCHANGED <<constructed, cache, ttl, disk, crashed, warned, lastSet, cleared,
                   lastWrite, faults>>
    /\ UNCHANGED <<concVars, diffVars, onceVars, gen, hook>>

Next ==
    \/ GetCacheCall
    \/ GetCall
    \/ SetCall
    \/ TouchCall
    \/ ClearCall
    \/ StatusCall
    \/ Tick

Spec == Init /\ [][Next]_vars

----------------------------------------------------------------------------
(* SpecConc: goroutines calling the methods of one store. Every method is   *)
(* mu.Lock()/mu.RLock(), defer the unlock, the body, the save, the unlock.  *)

Procs == 1..NumProcs

Readers == {"Get", "Status"}
Writers == {"Set", "Touch", "Clear"}

\* A Set that takes the read lock.
LockKind_SetShared(m) == IF m \in Readers \cup {"Set"} THEN "R" ELSE "W"

\* Lines 51 and 117: sc.mu.RLock(); lines 73, 95 and 109: sc.mu.Lock().
LockKind(m) == IF m \in Readers THEN "R" ELSE "W"

\* The calls a goroutine makes.
Calls ==
    {[m |-> "Get", id |-> "", root |-> r] : r \in {"/a", NoRepo}}
    \cup {[m |-> "Set", id |-> i, root |-> r] : i \in SessionIDs, r \in {"/a", NoRepo}}
    \cup {[m |-> "Touch", id |-> i, root |-> ""] : i \in SessionIDs}
    \cup {[m |-> "Clear", id |-> "", root |-> ""], [m |-> "Status", id |-> "", root |-> ""]}

NoCall == [m |-> "", id |-> "", root |-> ""]

\* sync.RWMutex: w is the goroutine that is past the writers' mutex (it waits
\* for the readers to leave, or it holds the lock); readers hold the read lock.
FreeLock == [w |-> 0, readers |-> {}]

InitConc ==
    /\ constructed = TRUE
    /\ \E d \in {Missing,
                 ObjectDoc([k \in {hashRepoPath("/a")} |->
                     [session_id |-> "s1", repo_path |-> "/a",
                      created_at |-> 0, last_used_at |-> 0]])} :
          /\ disk = d
          /\ cache = load(MadeCache, d).cache
    /\ ttl = LongestTTL
    /\ now = StartTime
    /\ crashed = FALSE
    /\ warned = "nil"
    /\ lastSet = [r \in Repos |-> <<>>]
    /\ cleared = FALSE
    /\ lastWrite = "none"
    /\ faults = 0
    /\ pc = [p \in Procs |-> "idle"]
    /\ rw = FreeLock
    /\ call = [p \in Procs |-> NoCall]
    /\ IdleDiff
    /\ once = DoneOnce
    /\ instance = <<Constructed(LongestTTL, CacheDir, 1)>>
    /\ got = <<>>

ConcFrame ==
    UNCHANGED <<constructed, ttl, now, crashed, warned, lastSet, cleared, diffVars, onceVars,
                gen, hook>>

\* A goroutine calls a method and reaches its first statement, the lock.
Invoke(p) ==
    /\ pc[p] = "idle"
    /\ \E c \in Calls : call' = [call EXCEPT ![p] = c]
    /\ pc' = [pc EXCEPT ![p] = "lock"]
    /\ UNCHANGED <<cache, disk, lastWrite, faults, rw>>
    /\ ConcFrame

\* RLock returns when no writer is past the writers' mutex.
RLock(p) ==
    /\ pc[p] = "lock"
    /\ LockKind(call[p].m) = "R"
    /\ rw.w = 0
    /\ rw' = [rw EXCEPT !.readers = @ \cup {p}]
    /\ pc' = [pc EXCEPT ![p] = "locked"]
    /\ UNCHANGED <<cache, disk, lastWrite, faults, call>>
    /\ ConcFrame

\* Lock takes the writers' mutex and announces the writer to the readers ...
LockAnnounce(p) ==
    /\ pc[p] = "lock"
    /\ LockKind(call[p].m) = "W"
    /\ rw.w = 0
    /\ rw' = [rw EXCEPT !.w = p]
    /\ pc' = [pc EXCEPT ![p] = "drain"]
    /\ UNCHANGED <<cache, disk, lastWrite, faults, call>>
    /\ ConcFrame

\* ... and returns when the readers that held the lock have left.
LockEnter(p) ==
    /\ pc[p] = "drain"
    /\ rw.readers = {}
    /\ pc' = [pc EXCEPT ![p] = "locked"]
    /\ UNCHANGED <<cache, disk, lastWrite, faults, call, rw>>
    /\ ConcFrame

\* The body up to save(): the lookup, the insertion, the scan, the new map.
Body(p) ==
    /\ pc[p] = "locked"
    /\ \E first \in IF Matching(call[p].id) = {} THEN {""} ELSE Matching(call[p].id) :
          LET c == call[p]
              o == CASE c.m = "Get" -> Get(c.root)
                     [] c.m = "Set" -> Set(c.id, c.root, "ok")
                     [] c.m = "Touch" -> UpdateLastUsed(c.id, first, "ok")
                     [] c.m = "Clear" -> Clear("ok")
                     [] OTHER -> Status
          IN  /\ cache' = o.cache
              /\ pc' = [pc EXCEPT ![p] = IF o.ret.io = "none" THEN "unlock" ELSE "save"]
    /\ UNCHANGED <<disk, lastWrite, faults, call, rw>>
    /\ ConcFrame

\* return sc.save()
Save(p) ==
    /\ pc[p] = "save"
    /\ \E io \in IOs :
          /\ disk' = save(cache, disk, io).disk
          /\ Saved([BaseRet EXCEPT !.io = io])
    /\ pc' = [pc EXCEPT ![p] = "unlock"]
    /\ UNCHANGED <<cache, call, rw>>
    /\ ConcFrame

\* An unlock that is written at the end of the body instead of deferred: the
\* early return on a repository that does not resolve skips it.
Unlock_LeakOnError(p) ==
    /\ pc[p] = "unlock"
    /\ rw' = IF call[p].root = NoRepo THEN rw
             ELSE IF LockKind(call[p].m) = "R"
             THEN [rw EXCEPT !.readers = @ \ {p}]
             ELSE [rw EXCEPT !.w = 0]
    /\ pc' = [pc EXCEPT ![p] = "idle"]
    /\ call' = [call EXCEPT ![p] = NoCall]
    /\ UNCHANGED <<cache, disk, lastWrite, faults>>
    /\ ConcFrame

\* The deferred RUnlock or Unlock.
Unlock(p) ==
    /\ pc[p] = "unlock"
    /\ rw' = IF LockKind(call[p].m) = "R"
             THEN [rw EXCEPT !.readers = @ \ {p}]
             ELSE [rw EXCEPT !.w = 0]
    /\ pc' = [pc EXCEPT ![p] = "idle"]
    /\ call' = [call EXCEPT ![p] = NoCall]
    /\ UNCHANGED <<cache, disk, lastWrite, faults>>
    /\ ConcFrame

NextConc ==
    \E p \in Procs :
        \/ Invoke(p)
        \/ RLock(p)
        \/ LockAnnounce(p)
        \/ LockEnter(p)
        \/ Body(p)
        \/ Save(p)
        \/ Unlock(p)

SpecConc == InitConc /\ [][NextConc]_vars

----------------------------------------------------------------------------
(* SpecLock: the locking of the methods alone, under fair scheduling. The   *)
(* goroutines take and release sc.mu as in SpecConc; what a method does to  *)
(* the mapping and the file is left out, and every return path of its code  *)
(* is followed whatever the mapping holds.                                  *)

\* The calls, by what decides their path: the method and whether the
\* repository resolves.
LockCalls ==
    {[m |-> "Get", id |-> "", root |-> r] : r \in {"/a", NoRepo}}
    \cup {[m |-> "Set", id |-> "s1", root |-> r] : r \in {"/a", NoRepo}}
    \cup {[m |-> "Touch", id |-> "s1", root |-> ""],
          [m |-> "Clear", id |-> "", root |-> ""],
          [m |-> "Status", id |-> "", root |-> ""]}

LockInvoke(p) ==
    /\ pc[p] = "idle"
    /\ \E c \in LockCalls : call' = [call EXCEPT ![p] = c]
    /\ pc' = [pc EXCEPT ![p] = "lock"]
    /\ UNCHANGED <<cache, disk, lastWrite, faults, rw>>
    /\ ConcFrame

\* The returns of a method: Get (lines 56, 62, 66, 69) and Status (129)
\* return without a save, Set returns early when the repository does not
\* resolve (78) and through save() otherwise (91), or it panics on a nil
\* mapping (84) and the deferred Unlock runs as the panic unwinds,
\* UpdateLastUsed returns through save() on a match (101) and with the
\* not-found error without (105), Clear returns through save() (113).
PathsOf(c) ==
    CASE c.m \in Readers -> {"unlock"}
      [] c.m = "Set" -> IF c.root = NoRepo THEN {"unlock"} ELSE {"save", "unlock"}
      [] c.m = "Touch" -> {"save", "unlock"}
      [] OTHER -> {"save"}

LockBody(p) ==
    /\ pc[p] = "locked"
    /\ \E next \in PathsOf(call[p]) : pc' = [pc EXCEPT ![p] = next]
    /\ UNCHANGED <<cache, disk, lastWrite, faults, call, rw>>
    /\ ConcFrame

\* return sc.save(): it returns, with or without an error.
LockSave(p) ==
    /\ pc[p] = "save"
    /\ pc' = [pc EXCEPT ![p] = "unlock"]
    /\ UNCHANGED <<cache, disk, lastWrite, faults, call, rw>>
    /\ ConcFrame

NextLock ==
    \E p \in Procs :
        \/ LockInvoke(p)
        \/ RLock(p)
        \/ LockAnnounce(p)
        \/ LockEnter(p)
        \/ LockBody(p)
        \/ LockSave(p)
        \/ Unlock(p)

\* Scheduling. A goroutine that can take a step is scheduled (weak fairness
\* of the steps that need no lock). sync.RWMutex does not starve: a goroutine
\* blocked in Lock is handed the writers' mutex when it is released (the
\* starvation mode of sync.Mutex), and the readers blocked behind a writer are
\* all released by its Unlock, before the next writer (strong fairness of the
\* two acquisitions). Nothing obliges a goroutine to make another call.
FairLock ==
    \A p \in Procs :
        /\ WF_vars(LockEnter(p) \/ LockBody(p) \/ LockSave(p) \/ Unlock(p))
        /\ SF_vars(RLock(p) \/ LockAnnounce(p))

SpecLock == InitConc /\ [][NextLock]_vars /\ FairLock

----------------------------------------------------------------------------
(* SpecOnce: goroutines calling GetCache. once.Do(f) is sync.Once: the fast *)
(* path reads done; the slow path takes the mutex of the Once, reads done   *)
(* again, runs f, stores done = 1 and releases the mutex. f is the          *)
(* constructor of lines 37-45: the SessionCache literal, then load().       *)

\* The (ttl, cachedir) a goroutine passes to GetCache.
OnceCalls == [m : {"GetCache"}, ttl : {1, 2}, dir : Dirs]

\* sessions.json of a directory: disk is the file of CacheDir.
FileIn(dir) == IF dir = CacheDir THEN disk ELSE Missing

InitOnce ==
    /\ constructed = FALSE
    /\ cache = MadeCache
    /\ ttl = 0
    /\ disk \in {Missing, Malformed, NullDoc,
                 ObjectDoc([k \in {hashRepoPath("/a")} |->
                     [session_id |-> "s1", repo_path |-> "/a",
                      created_at |-> 0, last_used_at |-> 0]])}
    /\ now = StartTime
    /\ crashed = FALSE
    /\ warned = "nil"
    /\ lastSet = [r \in Repos |-> <<>>]
    /\ cleared = FALSE
    /\ lastWrite = "none"
    /\ faults = 0
    /\ pc = [p \in Procs |-> "idle"]
    /\ rw = FreeLock
    /\ call = [p \in Procs |-> NoCall]
    /\ IdleDiff
    /\ once = FreshOnce
    /\ instance = <<>>
    /\ got = [p \in Procs |-> -1]

OnceFrame ==
    UNCHANGED <<disk, now, crashed, lastSet, cleared, lastWrite, faults, rw, diffVars, gen,
                hook>>

\* A goroutine calls GetCache(ttl, cachedir) and reaches once.Do.
OnceCall(p) ==
    /\ pc[p] = "idle"
    /\ \E c \in OnceCalls : call' = [call EXCEPT ![p] = c]
    /\ pc' = [pc EXCEPT ![p] = "fast"]
    /\ UNCHANGED <<constructed, cache, ttl, warned, once, instance, got>>
    /\ OnceFrame

\* Do: if o.done.Load() == 0 { o.doSlow(f) }
OnceFast(p) ==
    /\ pc[p] = "fast"
    /\ pc' = [pc EXCEPT ![p] = IF once.done = 0 THEN "slow" ELSE "return"]
    /\ UNCHANGED <<constructed, cache, ttl, warned, once, instance, got, call>>
    /\ OnceFrame

\* doSlow: o.m.Lock()
OnceLock(p) ==
    /\ pc[p] = "slow"
    /\ once.m = 0
    /\ once' = [once EXCEPT !.m = p]
    /\ pc' = [pc EXCEPT ![p] = "recheck"]
    /\ UNCHANGED <<constructed, cache, ttl, warned, instance, got, call>>
    /\ OnceFrame

\* A doSlow that runs f without reading done again.
DoSlowRuns_NoRecheck(done) == TRUE

\* doSlow, under the mutex: if o.done.Load() == 0 { defer o.done.Store(1); f() }
DoSlowRuns(done) == done = 0

OnceRecheck(p) ==
    /\ pc[p] = "recheck"
    /\ pc' = [pc EXCEPT ![p] = IF DoSlowRuns(once.done) THEN "construct" ELSE "onceunlock"]
    /\ UNCHANGED <<constructed, cache, ttl, warned, once, instance, got, call>>
    /\ OnceFrame

\* f, lines 37-41: instance = &SessionCache{cache: make(...), ttl, cachedir}
OnceConstruct(p) ==
    /\ pc[p] = "construct"
    /\ constructed' = TRUE
    /\ cache' = MadeCache
    /\ ttl' = call[p].ttl
    /\ instance' = Append(instance, Constructed(call[p].ttl, call[p].dir, 0))
    /\ pc' = [pc EXCEPT ![p] = "load"]
    /\ UNCHANGED <<warned, once, got, call>>
    /\ OnceFrame

\* f, lines 42-45: err := instance.load(), printed as a warning when not nil
OnceLoad(p) ==
    /\ pc[p] = "load"
    /\ LET last == Len(instance)
           ld == load(cache, FileIn(instance[last].cachedir))
       IN  /\ cache' = ld.cache
           /\ warned' = ld.err
           /\ instance' = [instance EXCEPT ![last].loads = @ + 1]
    /\ pc' = [pc EXCEPT ![p] = "store"]
    /\ UNCHANGED <<constructed, ttl, once, got, call>>
    /\ OnceFrame

\* the deferred o.done.Store(1)
OnceStore(p) ==
    /\ pc[p] = "store"
    /\ once' = [once EXCEPT !.done = 1]
    /\ pc' = [pc EXCEPT ![p] = "onceunlock"]
    /\ UNCHANGED <<constructed, cache, ttl, warned, instance, got, call>>
    /\ OnceFrame

\* the deferred o.m.Unlock()
OnceUnlock(p) ==
    /\ pc[p] = "onceunlock"
    /\ once' = [once EXCEPT !.m = 0]
    /\ pc' = [pc EXCEPT ![p] = "return"]
    /\ UNCHANGED <<constructed, cache, ttl, warned, instance, got, call>>
    /\ OnceFrame

\* line 47: return instance
OnceReturn(p) ==
    /\ pc[p] = "return"
    /\ got' = [got EXCEPT ![p] = Len(instance)]
    /\ pc' = [pc EXCEPT ![p] = "idle"]
    /\ UNCHANGED <<constructed, cache, ttl, warned, once, instance, call>>
    /\ OnceFrame

NextOnce ==
    \E p \in Procs :
        \/ OnceCall(p)
        \/ OnceFast(p)
        \/ OnceLock(p)
        \/ OnceRecheck(p)
        \/ OnceConstruct(p)
        \/ OnceLoad(p)
        \/ OnceStore(p)
        \/ OnceUnlock(p)
        \/ OnceReturn(p)

SpecOnce == InitOnce /\ [][NextOnce]_vars

----------------------------------------------------------------------------
(* The diff size governor. Texts are strings; an index is Go's, from 0.     *)

\* s[a:b]
Slice(s, a, b) == SubSeq(s, a + 1, b)

\* strings.Index(s, sub)
Index(s, sub) ==
    LET at == {i \in 0..(Len(s) - Len(sub)) : Slice(s, i, i + Len(sub)) = sub}
    IN  IF at = {} THEN -1 ELSE CHOOSE i \in at : \A j \in at : i <= j

\* strings.LastIndex(s, sub)
LastIndex(s, sub) ==
    LET at == {i \in 0..(Len(s) - Len(sub)) : Slice(s, i, i + Len(sub)) = sub}
    IN  IF at = {} THEN -1 ELSE CHOOSE i \in at : \A j \in at : i >= j

NL == "\n"

\* A truncation that keeps the line the limit falls in: it cuts at the first
\* newline at or after the limit.
truncateDiffSmart_WholeLine(diff, maxLen) ==
    LET e == Index(Slice(diff, maxLen, Len(diff)), NL)
    IN  IF Len(diff) <= maxLen \/ e < 0 THEN diff
        ELSE Slice(diff, 0, maxLen + e)

truncateDiffSmart(diff, maxLen) ==
    LET truncated == Slice(diff, 0, maxLen)
        lastHunk == LastIndex(truncated, "\n@@")
        hunkEnd == Index(Slice(truncated, lastHunk + 1, Len(truncated)), NL)
        lastNewline == LastIndex(truncated, NL)
    IN  IF Len(diff) <= maxLen THEN diff
        ELSE IF lastHunk > maxLen \div 2
        THEN IF hunkEnd > 0 THEN Slice(truncated, 0, lastHunk + 1 + hunkEnd)
             ELSE truncated
        ELSE IF lastNewline > 0 THEN Slice(truncated, 0, lastNewline)
             ELSE truncated

DefaultMaxDiffSize == 32 * 1024

RECURSIVE FileLines(_)
\* for _, f := range files { sb.WriteString(fmt.Sprintf("  - %s\n", f)) }
FileLines(files) ==
    IF files = <<>> THEN ""
    ELSE ("  - " \o Head(files) \o NL) \o FileLines(Tail(files))

\* The text summarizeDiff has built when it measures headerSize. in is what the
\* collaborators give: [stat, statErr, files, filesErr].
SummaryHeader(diff, in) ==
    LET stat == IF in.statErr THEN "(unable to get diff stat)" ELSE in.stat
        files == IF in.filesErr THEN <<"(unable to get file list)">> ELSE in.files
    IN  "=== DIFF SUMMARY (original too large) ===\n\n"
        \o "Original diff size: " \o ToString(Len(diff)) \o " bytes\n"
        \o "Files changed: " \o ToString(Len(files)) \o "\n\n"
        \o "=== CHANGED FILES ===\n"
        \o FileLines(files)
        \o NL
        \o "=== DIFF STAT ===\n"
        \o stat
        \o NL

\* A summary that keeps no reserve for what follows the excerpt.
RemainingSpace_NoReserve(diff, maxSize, in) == maxSize - Len(SummaryHeader(diff, in))

\* remainingSpace := maxSize - headerSize - 200
RemainingSpace(diff, maxSize, in) == maxSize - Len(SummaryHeader(diff, in)) - 200

summarizeDiff(diff, maxSize, in) ==
    LET header == SummaryHeader(diff, in)
        remainingSpace == RemainingSpace(diff, maxSize, in)
    IN  IF remainingSpace > 0
        THEN header \o "=== TRUNCATED DIFF ===\n"
                    \o truncateDiffSmart(diff, remainingSpace)
                    \o "\n\n... [truncated] ...\n"
        ELSE header

\* A governor that fetches the diff a second time when the first fetch fails.
GetStagedDiffWithLimit_Retry(in) ==
    LET maxSize == IF in.maxSize <= 0 THEN DefaultMaxDiffSize ELSE in.maxSize
        originalSize == Len(in.diff)
    IN  IF in.diffErr
        THEN [result |-> <<>>, err |-> "diff", called |-> <<"diff", "diff">>]
        ELSE IF originalSize <= maxSize
        THEN [result |-> <<[Diff |-> in.diff, IsSummarized |-> FALSE,
                            OriginalSize |-> originalSize]>>,
              err |-> "nil", called |-> <<"diff">>]
        ELSE [result |-> <<[Diff |-> summarizeDiff(in.diff, maxSize, in),
                            IsSummarized |-> TRUE,
                            OriginalSize |-> originalSize]>>,
              err |-> "nil", called |-> <<"diff", "stat", "files">>]

\* A governor without the default: it takes maxSize as it comes.
GetStagedDiffWithLimit_NoDefault(in) ==
    LET maxSize == in.maxSize
        originalSize == Len(in.diff)
    IN  IF in.diffErr
        THEN [result |-> <<>>, err |-> "diff", called |-> <<"diff">>]
        ELSE IF originalSize <= maxSize
        THEN [result |-> <<[Diff |-> in.diff, IsSummarized |-> FALSE,
                            OriginalSize |-> originalSize]>>,
              err |-> "nil", called |-> <<"diff">>]
        ELSE [result |-> <<[Diff |-> summarizeDiff(in.diff, maxSize, in),
                            IsSummarized |-> TRUE,
                            OriginalSize |-> originalSize]>>,
              err |-> "nil", called |-> <<"diff", "stat", "files">>]

\* A governor that summarizes a diff of exactly the budget.
GetStagedDiffWithLimit_Strict(in) ==
    LET maxSize == IF in.maxSize <= 0 THEN DefaultMaxDiffSize ELSE in.maxSize
        originalSize == Len(in.diff)
    IN  IF in.diffErr
        THEN [result |-> <<>>, err |-> "diff", called |-> <<"diff">>]
        ELSE IF originalSize < maxSize
        THEN [result |-> <<[Diff |-> in.diff, IsSummarized |-> FALSE,
                            OriginalSize |-> originalSize]>>,
              err |-> "nil", called |-> <<"diff">>]
        ELSE [result |-> <<[Diff |-> summarizeDiff(in.diff, maxSize, in),
                            IsSummarized |-> TRUE,
                            OriginalSize |-> originalSize]>>,
              err |-> "nil", called |-> <<"diff", "stat", "files">>]

\* A governor that reports the size of what it returns.
GetStagedDiffWithLimit_SummarySize(in) ==
    LET maxSize == IF in.maxSize <= 0 THEN DefaultMaxDiffSize ELSE in.maxSize
        originalSize == Len(in.diff)
        summarized == summarizeDiff(in.diff, maxSize, in)
    IN  IF in.diffErr
        THEN [result |-> <<>>, err |-> "diff", called |-> <<"diff">>]
        ELSE IF originalSize <= maxSize
        THEN [result |-> <<[Diff |-> in.diff, IsSummarized |-> FALSE,
                            OriginalSize |-> originalSize]>>,
              err |-> "nil", called |-> <<"diff">>]
        ELSE [result |-> <<[Diff |-> summarized, IsSummarized |-> TRUE,
                            OriginalSize |-> Len(summarized)]>>,
              err |-> "nil", called |-> <<"diff", "stat", "files">>]

\* A governor that gives up when a collaborator of the summary fails.
GetStagedDiffWithLimit_Escalate(in) ==
    LET maxSize == IF in.maxSize <= 0 THEN DefaultMaxDiffSize ELSE in.maxSize
        originalSize == Len(in.diff)
    IN  IF in.diffErr
        THEN [result |-> <<>>, err |-> "diff", called |-> <<"diff">>]
        ELSE IF originalSize <= maxSize
        THEN [result |-> <<[Diff |-> in.diff, IsSummarized |-> FALSE,
                            OriginalSize |-> originalSize]>>,
              err |-> "nil", called |-> <<"diff">>]
        ELSE IF in.statErr \/ in.filesErr
        THEN [result |-> <<>>, err |-> "summary", called |-> <<"diff", "stat", "files">>]
        ELSE [result |-> <<[Diff |-> summarizeDiff(in.diff, maxSize, in),
                            IsSummarized |-> TRUE,
                            OriginalSize |-> originalSize]>>,
              err |-> "nil", called |-> <<"diff", "stat", "files">>]

\* in: [maxSize, diff, diffErr, stat, statErr, files, filesErr]. The result:
\* the *DiffResult (result = <<>> is nil), the error, the collaborators called.
GetStagedDiffWithLimit(in) ==
    LET maxSize == IF in.maxSize <= 0 THEN DefaultMaxDiffSize ELSE in.maxSize
        originalSize == Len(in.diff)
    IN  IF in.diffErr
        THEN [result |-> <<>>, err |-> "diff", called |-> <<"diff">>]
        ELSE IF originalSize <= maxSize
        THEN [result |-> <<[Diff |-> in.diff, IsSummarized |-> FALSE,
                            OriginalSize |-> originalSize]>>,
              err |-> "nil", called |-> <<"diff">>]
        ELSE [result |-> <<[Diff |-> summarizeDiff(in.diff, maxSize, in),
                            IsSummarized |-> TRUE,
                            OriginalSize |-> originalSize]>>,
              err |-> "nil", called |-> <<"diff", "stat", "files">>]

----------------------------------------------------------------------------
(* SpecDiff: the two functions applied to inputs drawn from bounded sets    *)

\* The lines a diff is made of: context, an empty line, hunk headers.
Lines == {"", "x", "xxx", "@@", "@@ x"}

RECURSIVE Joined(_)
\* The texts of n lines, without the newline that ends the last one.
Joined(n) ==
    IF n = 1 THEN Lines
    ELSE {t \o NL \o l : t \in Joined(n - 1), l \in Lines}

Diffs ==
    LET T == UNION {Joined(n) : n \in 1..MaxLines}
    IN  (T \cup {t \o NL : t \in T}) \ {""}

RECURSIVE Doubled(_, _)
Doubled(t, k) == IF k = 0 THEN t ELSE Doubled(t \o t, k - 1)

\* 512 bytes and 32 KiB of context lines.
Pad512 == Doubled("yyyyyyy\n", 6)
Pad32K == Doubled("yyyyyyy\n", 12)

LongStat == Doubled(" a.go | 2 +-\n", 4)

\* What GetStagedDiffWithLimit is called with and what its collaborators give.
\* Diffs of some 0.5 KiB that differ in their first lines, under budgets that
\* leave a few bytes for the excerpt, or none:
NearBudget ==
    [maxSize : 330..345,
     diff : {h \o NL \o Pad512 : h \in UNION {Joined(n) : n \in 1..2}},
     diffErr : {FALSE},
     stat : {""}, statErr : BOOLEAN,
     files : {<<>>}, filesErr : BOOLEAN]

\* no diff, small diffs and a 0.5 KiB diff under the default budget, tiny
\* budgets and a budget that leaves room for an excerpt of the 0.5 KiB diff:
Mixed ==
    [maxSize : {-1, 0, 1, 100, 500},
     diff : {"", "x\n", "@@ x\nxxx\n", "x\n@@ x\n" \o Pad512},
     diffErr : {FALSE},
     stat : {"", LongStat}, statErr : BOOLEAN,
     files : {<<>>, <<"a.go", "b/c.go">>}, filesErr : BOOLEAN]

\* diffs of exactly the default budget and just above it:
AroundDefault ==
    [maxSize : {-1, 0, DefaultMaxDiffSize},
     diff : {Pad32K, "x\n" \o Pad32K},
     diffErr : {FALSE},
     stat : {"", LongStat}, statErr : BOOLEAN,
     files : {<<>>}, filesErr : {FALSE}]

\* and git diff --staged failing:
NoDiff ==
    [maxSize : {0, 100}, diff : {""}, diffErr : {TRUE},
     stat : {""}, statErr : BOOLEAN, files : {<<>>}, filesErr : BOOLEAN]

DiffInputs == NearBudget \cup Mixed \cup AroundDefault \cup NoDiff

IdleCache ==
    /\ constructed = FALSE
    /\ cache = MadeCache
    /\ ttl = 0
    /\ disk = Missing
    /\ now = StartTime
    /\ crashed = FALSE
    /\ warned = "nil"
    /\ lastSet = [r \in Repos |-> <<>>]
    /\ cleared = FALSE
    /\ lastWrite = "none"
    /\ faults = 0

\* The call to make and its arguments.
DiffCalls ==
    {[fn |-> "truncateDiffSmart", diff |-> d, maxLen |-> n] :
        d \in Diffs, n \in 1..MaxLines * 5}
    \cup {[fn |-> "GetStagedDiffWithLimit", in |-> in] : in \in DiffInputs}

Pending == [done |-> FALSE]

InitDiff ==
    /\ dIn \in {c \in DiffCalls : c.fn = "truncateDiffSmart" => c.maxLen < Len(c.diff)}
    /\ dOut = Pending
    /\ gen = <<>>
    /\ hook = <<>>
    /\ IdleCache
    /\ IdleConc
    /\ NotConstructed

TruncateCall ==
    /\ dIn.fn = "truncateDiffSmart"
    /\ dOut = Pending
    /\ dOut' = [done |-> TRUE, excerpt |-> truncateDiffSmart(dIn.diff, dIn.maxLen)]
    /\ UNCHANGED <<dIn, cacheVars, concVars, onceVars, gen, hook>>

GetBoundedCall ==
    /\ dIn.fn = "GetStagedDiffWithLimit"
    /\ dOut = Pending
    /\ dOut' = [done |-> TRUE, ret |-> GetStagedDiffWithLimit(dIn.in)]
    /\ UNCHANGED <<dIn, cacheVars, concVars, onceVars, gen, hook>>

NextDiff ==
    \/ TruncateCall
    \/ GetBoundedCall

SpecDiff == InitDiff /\ [][NextDiff]_vars

----------------------------------------------------------------------------
(* The git hook. hook.fs gives, for every repository, the file              *)
(* <root>/.git/hooks/prepare-commit-msg: whether it exists, its content,    *)
(* and what the file system lets the program do with it: "ok", "unreadable" *)
(* (the file cannot be opened for reading) or "denied" (the hooks directory *)
(* cannot be searched: stat, open and unlink all fail).                     *)

NoFile(perm) == [exists |-> FALSE, content |-> "", perm |-> perm]
File(content, perm) == [exists |-> TRUE, content |-> content, perm |-> perm]

\* The executable os.Executable reports.
ExePath == "/usr/local/bin/cg"

\* fmt.Sprintf(hookScriptFmt, exePath), the body of the script shortened to
\* the line that runs the executable.
HookScript(exePath) ==
    "#!/bin/bash\n# commit-gen git hook\n\"" \o exePath \o "\" generate --hook\nexit 0\n"

\* strings.Contains(string(content), "commit-gen")
IsOurs(content) == Index(content, "commit-gen") >= 0

\* os.Stat(hookPath) returns no error.
StatOK(f) == f.exists /\ f.perm # "denied"
\* os.Stat(hookPath) returns an error for which os.IsNotExist holds.
StatNotExist(f) == ~f.exists /\ f.perm # "denied"
\* os.ReadFile(hookPath) returns the content.
ReadOK(f) == f.exists /\ f.perm = "ok"

\* What the system does in one call, beyond what perm says: nothing fails
\* ("ok") or one of os.Executable, os.MkdirAll, os.WriteFile ("open": the
\* file is not created, "write": the file is created and the write fails
\* part way) and os.Remove does.
HookEnvs == {"ok", "executable", "mkdir", "open", "write", "remove"}

\* The strict prefixes of the script a failed write leaves: nothing, the first
\* line, everything but the last byte.
Partials(script) ==
    {Slice(script, 0, n) : n \in {0, Len("#!/bin/bash\n"), Len(script) - 1}}

\* An Install that writes the hook whatever is there.
Install_Overwrite(fs, root, env, part) ==
    IF root = NoRepo THEN [fs |-> fs, err |-> "norepo"]
    ELSE IF env = "executable" THEN [fs |-> fs, err |-> "executable"]
    ELSE IF env = "mkdir" THEN [fs |-> fs, err |-> "mkdir"]
    ELSE IF fs[root].perm = "denied" \/ env = "open"
    THEN [fs |-> fs, err |-> "write"]
    ELSE IF env = "write"
    THEN [fs |-> [fs EXCEPT ![root] = File(part, "ok")], err |-> "write"]
    ELSE [fs |-> [fs EXCEPT ![root] = File(HookScript(ExePath), "ok")],
          err |-> "nil"]

\* Install: the files it leaves and the error it returns. part is what a
\* write that fails part way leaves in the file.
Install(fs, root, env, part) ==
    IF root = NoRepo THEN [fs |-> fs, err |-> "norepo"]
    ELSE IF env = "executable" THEN [fs |-> fs, err |-> "executable"]
    ELSE IF env = "mkdir" THEN [fs |-> fs, err |-> "mkdir"]
    ELSE IF StatOK(fs[root])
    THEN IF ReadOK(fs[root]) /\ IsOurs(fs[root].content)
         THEN [fs |-> fs, err |-> "installed"]
         ELSE [fs |-> fs, err |-> "exists"]
    ELSE IF fs[root].perm = "denied" \/ env = "open"
    THEN [fs |-> fs, err |-> "write"]
    ELSE IF env = "write"
    THEN [fs |-> [fs EXCEPT ![root] = File(part, "ok")], err |-> "write"]
    ELSE [fs |-> [fs EXCEPT ![root] = File(HookScript(ExePath), "ok")],
          err |-> "nil"]

Uninstall(fs, root, env) ==
    IF root = NoRepo THEN [fs |-> fs, err |-> "norepo"]
    ELSE IF StatNotExist(fs[root]) THEN [fs |-> fs, err |-> "notfound"]
    ELSE IF ~ReadOK(fs[root]) THEN [fs |-> fs, err |-> "read"]
    ELSE IF ~IsOurs(fs[root].content) THEN [fs |-> fs, err |-> "foreign"]
    ELSE IF env = "remove" THEN [fs |-> fs, err |-> "remove"]
    ELSE [fs |-> [fs EXCEPT ![root] = NoFile("ok")], err |-> "nil"]

IsInstalled(fs, root) ==
    IF root = NoRepo THEN [installed |-> FALSE, err |-> "norepo"]
    ELSE IF ~ReadOK(fs[root])
    THEN IF StatNotExist(fs[root])
         THEN [installed |-> FALSE, err |-> "nil"]
         ELSE [installed |-> FALSE, err |-> "read"]
    ELSE [installed |-> IsOurs(fs[root].content), err |-> "nil"]

----------------------------------------------------------------------------
(* SpecHook: the three functions called in any order in two repositories    *)
(* and outside of one, while the user and other tools write the hook file.  *)

\* The hooks other tools and the user write: a script of their own, one that
\* mentions commit-gen, an empty file.
OtherHooks ==
    {"#!/bin/sh\nnpx lint-staged\n", "#!/bin/sh\n# runs before commit-gen\nmake lint\n", ""}

HookFiles ==
    {NoFile(q) : q \in {"ok", "denied"}}
    \cup {File(c, q) :
            c \in OtherHooks \cup {HookScript(ExePath)},
            q \in {"ok", "unreadable", "denied"}}

NoHookCall == [op |-> "", root |-> "", err |-> "", installed |-> FALSE, before |-> <<>>]

\* git init: no prepare-commit-msg hook.
InitHook ==
    /\ hook = [fs |-> [r \in Repos |-> NoFile("ok")],
               last |-> NoHookCall]
    /\ gen = <<>>
    /\ dIn = <<>>
    /\ dOut = <<>>
    /\ IdleCache
    /\ IdleConc
    /\ NotConstructed

HookFrame == UNCHANGED <<cacheVars, concVars, diffVars, onceVars, gen>>

InstallCall ==
    \E root \in Repos \cup {NoRepo}, env \in HookEnvs, part \in Partials(HookScript(ExePath)) :
        LET o == Install(hook.fs, root, env, part)
        IN  /\ hook' = [fs |-> o.fs,
                        last |-> [op |-> "Install", root |-> root, err |-> o.err,
                                  installed |-> FALSE, before |-> <<hook.fs>>]]
            /\ HookFrame

UninstallCall ==
    \E root \in Repos \cup {NoRepo}, env \in HookEnvs :
        LET o == Uninstall(hook.fs, root, env)
        IN  /\ hook' = [fs |-> o.fs,
                        last |-> [op |-> "Uninstall", root |-> root, err |-> o.err,
                                  installed |-> FALSE, before |-> <<hook.fs>>]]
            /\ HookFrame

IsInstalledCall ==
    \E root \in Repos \cup {NoRepo} :
        LET o == IsInstalled(hook.fs, root)
        IN  /\ hook' = [fs |-> hook.fs,
                        last |-> [op |-> "IsInstalled", root |-> root, err |-> o.err,
                                  installed |-> o.installed, before |-> <<hook.fs>>]]
            /\ HookFrame

\* Somebody else writes, removes or protects the hook file of a repository.
HookEdit ==
    \E root \in Repos, f \in HookFiles :
        /\ hook' = [fs |-> [hook.fs EXCEPT ![root] = f], last |-> NoHookCall]
        /\ HookFrame

NextHook ==
    \/ InstallCall
    \/ UninstallCall
    \/ IsInstalledCall
    \/ HookEdit

SpecHook == InitHook /\ [][NextHook]_vars

----------------------------------------------------------------------------
(* SpecGen: the program in server mode, one run after another. A run is     *)
(* main's GetCache followed by generateWithServer, step by step over the    *)
(* session cache; the OpenCode server answers as it pleases. gen is the     *)
(* run: where it is (pc), the repository it runs in (root), its local       *)
(* variables sessionID and cachedSession (got: what Get returned; held: the *)
(* key of the map entry cachedSession points to and the record as Get found *)
(* it), and the history of the run: the calls made so far (log), the ID     *)
(* CreateSession returned (created), the ID SendMessage was given (sent)    *)
(* and the error the run returned (err).                                    *)

IdleRun ==
    [pc |-> "idle", root |-> "", sessionID |-> "", got |-> <<>>, held |-> <<>>,
     created |-> "", log |-> <<>>, sent |-> "", err |-> "nil"]

InitGen ==
    /\ constructed = FALSE
    /\ cache = MadeCache
    /\ ttl = 0
    /\ disk \in InitDisks
    /\ now = StartTime
    /\ crashed = FALSE
    /\ warned = "nil"
    /\ lastSet = [r \in Repos |-> <<>>]
    /\ cleared = FALSE
    /\ lastWrite = "none"
    /\ faults = 0
    /\ gen = IdleRun
    /\ hook = <<>>
    /\ dIn = <<>>
    /\ dOut = <<>>
    /\ IdleConc
    /\ NotConstructed

GenFrame == UNCHANGED <<concVars, diffVars, onceVars, hook>>

\* A run that never uses the cached session.
UseCached_Never(ret) == FALSE

\* line 130: if err == nil && cachedSession != nil
UseCached(ret) == ret.err = "nil" /\ ret.session # <<>>

\* Generate calls generateWithServer in the repository the program runs in.
GenStart ==
    /\ constructed /\ ~crashed
    /\ gen.pc = "idle"
    /\ \E root \in Repos \cup {NoRepo} :
          gen' = [IdleRun EXCEPT !.pc = "health", !.root = root]
    /\ UNCHANGED cacheVars
    /\ GenFrame

\* g.client.CheckHealth()
GenHealth ==
    /\ ~crashed
    /\ gen.pc = "health"
    /\ \E healthy \in BOOLEAN :
          gen' = IF healthy THEN [gen EXCEPT !.pc = "get"]
                 ELSE [gen EXCEPT !.pc = "done", !.err = "health"]
    /\ UNCHANGED cacheVars
    /\ GenFrame

\* cachedSession, err := g.cache.Get(): cachedSession is the pointer the map
\* holds for the repository, not a copy of the record.
GenGet ==
    LET o == Get(gen.root)
        use == UseCached(o.ret)
    IN  /\ ~crashed
        /\ gen.pc = "get"
        /\ gen' = [gen EXCEPT
                     !.pc = IF use THEN "touch" ELSE "create",
                     !.got = <<o.ret>>,
                     !.held = IF o.ret.session = <<>> THEN <<>>
                              ELSE <<[key |-> hashRepoPath(gen.root),
                                      snap |-> o.ret.session[1]]>>,
                     !.sessionID = IF use THEN o.ret.session[1].SessionID ELSE "",
                     !.log = Append(@, "Get")]
        /\ cache' = o.cache
        /\ disk' = o.disk
        /\ UNCHANGED <<constructed, ttl, now, crashed, warned, lastSet, cleared, lastWrite,
                       faults>>
        /\ GenFrame

\* g.client.CreateSession(...): an error, or the ID of a session of the server.
GenCreate ==
    /\ ~crashed
    /\ gen.pc = "create"
    /\ \E id \in SessionIDs \cup {""} :
          gen' = IF id = ""
                 THEN [gen EXCEPT !.pc = "done", !.err = "create",
                                  !.log = Append(@, "CreateSession")]
                 ELSE [gen EXCEPT !.pc = "set", !.created = id, !.sessionID = id,
                                  !.log = Append(@, "CreateSession")]
    /\ UNCHANGED cacheVars
    /\ GenFrame

\* g.cache.Set(sessionID): its error is printed as a warning.
GenSet ==
    \E io \in IOs :
        LET o == Set(gen.sessionID, gen.root, io)
        IN  /\ ~crashed
            /\ gen.pc = "set"
            /\ gen' = [gen EXCEPT !.pc = "touch", !.log = Append(@, "Set")]
            /\ cache' = o.cache
            /\ disk' = o.disk
            /\ crashed' = (o.ret.err = "panic")
            /\ lastSet' = IF gen.root # NoRepo /\ ~cache.isNil
                          THEN [lastSet EXCEPT ![gen.root] =
                                  <<[id |-> gen.sessionID, at |-> now, ok |-> io = "ok"]>>]
                          ELSE lastSet
            /\ cleared' = FALSE
            /\ Saved(o.ret)
            /\ UNCHANGED <<constructed, ttl, now, warned>>
            /\ GenFrame

\* g.cache.UpdateLastUsed(sessionID): its error is printed as a warning.
GenTouch ==
    \E io \in IOs :
        \E first \in IF Matching(gen.sessionID) = {} THEN {""}
                     ELSE Matching(gen.sessionID) :
            LET o == UpdateLastUsed(gen.sessionID, first, io)
            IN  /\ ~crashed
                /\ gen.pc = "touch"
                /\ gen' = [gen EXCEPT !.pc = "send", !.log = Append(@, "Touch")]
                /\ cache' = o.cache
                /\ disk' = o.disk
                /\ Saved(o.ret)
                /\ UNCHANGED <<constructed, ttl, now, crashed, warned, lastSet, cleared>>
                /\ GenFrame

\* g.client.SendMessage(sessionID, prompt, model)
GenSend ==
    /\ ~crashed
    /\ gen.pc = "send"
    /\ \E ok \in BOOLEAN :
          gen' = [gen EXCEPT !.pc = "done", !.sent = gen.sessionID,
                             !.err = IF ok THEN "nil" ELSE "send",
                             !.log = Append(@, "SendMessage")]
    /\ UNCHANGED cacheVars
    /\ GenFrame

\* The run has returned and the process exits: the next run is a new process.
GenExit ==
    /\ ~crashed
    /\ gen.pc = "done"
    /\ gen' = IdleRun
    /\ constructed' = FALSE
    /\ cache' = MadeCache
    /\ ttl' = 0
    /\ warned' = "nil"
    /\ once' = FreshOnce
    /\ instance' = <<>>
    /\ UNCHANGED <<disk, now, crashed, lastSet, cleared, lastWrite, faults>>
    /\ UNCHANGED <<concVars, diffVars, got, hook>>

NextGen ==
    \/ GetCacheCall
    \/ GenStart
    \/ GenHealth
    \/ GenGet
    \/ GenCreate
    \/ GenSet
    \/ GenTouch
    \/ GenSend
    \/ GenExit
    \/ Tick

SpecGen == InitGen /\ [][NextGen]_vars

----------------------------------------------------------------------------
(* Claims about the session cache, checked under Spec.                      *)
(* A claim about what a call returns is stated of the call's outcome in     *)
(* every reachable state of the store, for every input.                     *)

Usable == constructed /\ ~crashed

KeyOf(r) == hashRepoPath(r)

\* The age of an entry, read off its creation instant.
Age(s) == now - s.CreatedAt.wall

\* C1: after a Set(id) that succeeded for a repository, and as long as no Set
\* or Clear came in between and the age of the entry does not exceed the TTL,
\* Get for that repository returns a record whose SessionID is id, and no error.
C1_SetThenGet ==
    Usable =>
        \A r \in Repos :
            (/\ lastSet[r] # <<>>
             /\ lastSet[r][1].ok
             /\ now - lastSet[r][1].at <= ttl)
            => LET g == Get(r).ret
               IN  /\ g.err = "nil"
                   /\ Len(g.session) = 1
                   /\ g.session[1].SessionID = lastSet[r][1].id

\* The Set is one TTL old, another repository holds an entry too, and Get
\* still returns the session.
C1_Witness ==
    /\ Usable
    /\ \E r \in Repos :
          /\ lastSet[r] # <<>>
          /\ lastSet[r][1].ok
          /\ now - lastSet[r][1].at = ttl
          /\ Get(r).ret.session # <<>>
          /\ Cardinality(DOMAIN cache.m) > 1

\* C2: once the age of an entry exceeds the TTL, Get returns absent and no
\* error; no Get and no Status changes the mapping or the file, and Status
\* counts a single stale entry as total = 1, valid = 0.
C2_LazyExpiry ==
    Usable =>
        /\ \A r \in Repos :
              (KeyOf(r) \in DOMAIN cache.m /\ Age(cache.m[KeyOf(r)]) > ttl)
              => (Get(r).ret.err = "nil" /\ Get(r).ret.session = <<>>)
        /\ \A root \in Repos \cup {NoRepo} :
              Get(root).cache = cache /\ Get(root).disk = disk
        /\ Status.cache = cache /\ Status.disk = disk /\ Status.ret.err = "nil"
        /\ (/\ Cardinality(DOMAIN cache.m) = 1
            /\ \A k \in DOMAIN cache.m : Age(cache.m[k]) > ttl)
           => (Status.ret.total = 1 /\ Status.ret.valid = 0)

\* An entry this process set is the only one and has outlived the TTL.
C2_Witness ==
    /\ Usable
    /\ Cardinality(DOMAIN cache.m) = 1
    /\ \E r \in Repos :
          /\ lastSet[r] # <<>>
          /\ KeyOf(r) \in DOMAIN cache.m
          /\ now - lastSet[r][1].at > ttl
          /\ disk.kind = "object" /\ KeyOf(r) \in DOMAIN disk.entries

\* C5 as stated: a missing file yields an empty mapping without error, and
\* construction never completes with a store after load() failed on a
\* malformed file.
C5_Original ==
    /\ ~constructed =>
          \A t \in TTLs :
              disk.kind = "missing"
              => (GetCache(t).cache = MadeCache /\ GetCache(t).ret.warning = "nil")
    /\ ~(constructed /\ warned # "nil")

\* C5 as amended: a missing file yields an empty mapping with neither error
\* nor warning; a malformed file makes load() fail, GetCache prints that as a
\* warning, and construction completes with a store whose mapping is empty.
C5_Amended ==
    /\ ~constructed =>
          \A t \in TTLs :
              LET o == GetCache(t)
              IN  /\ disk.kind = "missing"
                     => (o.cache = MadeCache /\ o.ret.err = "nil" /\ o.ret.warning = "nil")
                  /\ disk.kind = "malformed"
                     => (o.cache = MadeCache /\ o.ret.err = "nil" /\ o.ret.warning # "nil")
    /\ (constructed /\ warned # "nil" /\ lastWrite = "none")
       => (cache = MadeCache /\ disk = Malformed)

\* The store built over a malformed file has taken a Set.
C5_Witness ==
    /\ Usable
    /\ warned # "nil"
    /\ cache.m # EmptyMap

\* The mapping a fresh store would load from the file.
Reloaded == load(MadeCache, disk)

SameSession(a, b) ==
    /\ a.SessionID = b.SessionID
    /\ a.RepoPath = b.RepoPath
    /\ TimeEqual(a.CreatedAt, b.CreatedAt)
    /\ TimeEqual(a.LastUsedAt, b.LastUsedAt)

\* C7: when the most recent write of a Set, Touch or Clear succeeded, the file
\* mirrors the mapping: a fresh store loads the same keys with the same
\* SessionID, RepoPath, CreatedAt and LastUsedAt (as instants).
C7_RoundTrip ==
    lastWrite = "ok" =>
        /\ Reloaded.err = "nil"
        /\ ~Reloaded.cache.isNil
        /\ DOMAIN Reloaded.cache.m = DOMAIN cache.m
        /\ \A k \in DOMAIN cache.m : SameSession(Reloaded.cache.m[k], cache.m[k])

\* Two entries, one of them touched after it was set at an odd instant, a
\* failed write in the past, and the last write went through.
C7_Witness ==
    /\ lastWrite = "ok"
    /\ faults > 0
    /\ Cardinality(DOMAIN cache.m) = 2
    /\ \E k \in DOMAIN cache.m :
          /\ cache.m[k].CreatedAt.wall % 2 = 1
          /\ cache.m[k].LastUsedAt.wall > cache.m[k].CreatedAt.wall

\* C8: Touch with a session ID no entry holds returns the not-found error,
\* changes no entry, adds and removes none, and does not write the file.
C8_TouchNotFound ==
    Usable =>
        \A id \in SessionIDs, io \in SaveOutcomes :
            (\A k \in DOMAIN cache.m : cache.m[k].SessionID # id)
            => LET o == UpdateLastUsed(id, "", io)
               IN  /\ o.ret.err = "notfound"
                   /\ o.cache = cache
                   /\ o.disk = disk
                   /\ o.ret.io = "none"

\* The store holds entries, none with s2, and the file differs from what a
\* save would write.
C8_Witness ==
    /\ Usable
    /\ cache.m # EmptyMap
    /\ \A k \in DOMAIN cache.m : cache.m[k].SessionID # "s2"
    /\ disk # MarshalCache(cache)

\* C9: after Clear, whatever the store held and whether or not the write
\* succeeded, the mapping is empty and Status returns (0, 0) until the next Set.
C9_AfterClear ==
    (Usable /\ cleared) =>
        /\ cache = MadeCache
        /\ Status.ret.total = 0
        /\ Status.ret.valid = 0
        /\ Status.ret.err = "nil"

\* Clear ran on a store with entries and its write failed: the file still
\* holds them.
C9_Witness ==
    /\ Usable /\ cleared
    /\ lastWrite = "failed"
    /\ disk.kind = "object" /\ disk.entries # EmptyMap

\* What a failing save() of a mutating call must leave, given what the disk
\* is allowed to hold afterwards.
FailedWriteKeepsMutation(DiskAfter(_, _)) ==
    \A io \in SaveOutcomes \ {"ok"} :
        /\ \A id \in SessionIDs, r \in Repos :
              LET o == Set(id, r, io)
              IN  /\ o.ret.err = "persist"
                  /\ KeyOf(r) \in DOMAIN o.cache.m
                  /\ o.cache.m[KeyOf(r)].SessionID = id
                  /\ o.cache.m[KeyOf(r)].CreatedAt = TimeNow
                  /\ DiskAfter(o.disk, io)
        /\ \A id \in SessionIDs : \A first \in Matching(id) :
              LET o == UpdateLastUsed(id, first, io)
              IN  /\ o.ret.err = "persist"
                  /\ o.cache.m[first].LastUsedAt = TimeNow
                  /\ DiskAfter(o.disk, io)
        /\ LET o == Clear(io)
           IN  /\ o.ret.err = "persist"
               /\ o.cache = MadeCache
               /\ DiskAfter(o.disk, io)

\* After a Set whose write failed the entry is what Get returns.
FailedSetVisible ==
    \A r \in Repos :
        (lastSet[r] # <<>> /\ ~lastSet[r][1].ok /\ now - lastSet[r][1].at <= ttl)
        => (/\ Len(Get(r).ret.session) = 1
            /\ Get(r).ret.session[1].SessionID = lastSet[r][1].id)

DiskKept(d, io) == d = disk

DiskKeptOrRewritten(d, io) ==
    CASE io = "open" -> d = disk
      [] io = "write" -> d = Malformed
      [] OTHER -> d.kind = "object"

\* C10 as stated: a mutating call whose write fails returns the error and
\* keeps its change of the mapping, and the file keeps its previous content.
C10_Original ==
    (Usable /\ ~cache.isNil) =>
        (FailedWriteKeepsMutation(DiskKept) /\ FailedSetVisible)

\* C10 as amended: a mutating call whose write fails returns the error and
\* keeps its change of the mapping; the file keeps its previous content when
\* the directory or the file cannot be opened, and has lost it when the
\* failure comes after the file was opened: it then holds a prefix of the new
\* document (unparseable when the write failed, the whole document when only
\* the close failed).
C10_Amended ==
    (Usable /\ ~cache.isNil) =>
        (FailedWriteKeepsMutation(DiskKeptOrRewritten) /\ FailedSetVisible)

\* A Set failed in the write: its entry is in the mapping and the file is
\* truncated.
C10_Witness ==
    /\ Usable
    /\ lastWrite = "failed"
    /\ disk = Malformed
    /\ \E r \in Repos :
          /\ lastSet[r] # <<>>
          /\ ~lastSet[r][1].ok
          /\ Get(r).ret.session # <<>>

\* C15: after GetCache has returned, the mapping is not nil, whatever the
\* cache directory held (no file, a valid file, a malformed file, a JSON
\* null), and a Set can insert into it.
C15_MappingInitialized ==
    constructed =>
        /\ ~cache.isNil
        /\ \A id \in SessionIDs, r \in Repos : Set(id, r, "ok").ret.err # "panic"

\* The sessions Get returns for the repositories, by repository.
Returned == [r \in Repos |-> Get(r).ret.session]

\* C16: Touch changes LastUsedAt only: CreatedAt, SessionID and RepoPath of
\* every entry stay, no entry comes or goes, and every entry is expired after
\* the Touch exactly if it was before; an entry touched after it had expired
\* is not returned by Get.
C16_TouchOnlyLastUsed ==
    Usable =>
        /\ \A id \in SessionIDs, io \in SaveOutcomes : \A first \in Matching(id) :
              LET o == UpdateLastUsed(id, first, io)
              IN  /\ DOMAIN o.cache.m = DOMAIN cache.m
                  /\ o.cache.m[first] = [cache.m[first] EXCEPT !.LastUsedAt = TimeNow]
                  /\ \A k \in DOMAIN cache.m :
                        /\ k # first => o.cache.m[k] = cache.m[k]
                        /\ o.cache.m[k].CreatedAt = cache.m[k].CreatedAt
                        /\ o.cache.m[k].SessionID = cache.m[k].SessionID
                        /\ o.cache.m[k].RepoPath = cache.m[k].RepoPath
                        /\ Expired(o.cache.m[k]) = Expired(cache.m[k])
                        /\ StillValid(o.cache.m[k]) = StillValid(cache.m[k])
                  /\ \A r \in Repos :
                        Returned[r] = <<>>
                        => (KeyOf(r) \in DOMAIN o.cache.m => Expired(o.cache.m[KeyOf(r)]))
        /\ \A r \in Repos :
              (/\ KeyOf(r) \in DOMAIN cache.m
               /\ cache.m[KeyOf(r)].LastUsedAt.wall - cache.m[KeyOf(r)].CreatedAt.wall > ttl)
              => Returned[r] = <<>>

\* An entry was touched after it had expired, and Get does not return it.
C16_Witness ==
    /\ Usable
    /\ \E r \in Repos :
          /\ KeyOf(r) \in DOMAIN cache.m
          /\ LET s == cache.m[KeyOf(r)]
             IN  /\ s.LastUsedAt.wall - s.CreatedAt.wall > ttl
                 /\ s.LastUsedAt.mono
          /\ Returned[r] = <<>>

\* No repository has two entries.
OnePerRepo(c) ==
    \A r \in Repos : Cardinality({k \in DOMAIN c.m : c.m[k].RepoPath = r}) <= 1

\* What Set leaves, from any state of the key.
SetLeavesOneEntry ==
    Usable =>
        /\ OnePerRepo(cache)
        /\ \A id \in SessionIDs, r \in Repos, io \in SaveOutcomes :
              LET o == Set(id, r, io)
              IN  /\ DOMAIN o.cache.m = DOMAIN cache.m \cup {KeyOf(r)}
                  /\ o.cache.m[KeyOf(r)] =
                        [SessionID |-> id, RepoPath |-> r,
                         CreatedAt |-> TimeNow, LastUsedAt |-> TimeNow]
                  /\ \A k \in DOMAIN cache.m \ {KeyOf(r)} : o.cache.m[k] = cache.m[k]
                  /\ OnePerRepo(o.cache)

\* A key leaves the mapping in a Clear only.
OnlyClearRemoves ==
    (\E k \in DOMAIN cache.m : k \notin DOMAIN cache'.m) => ClearCall

\* C17: Set, whether the key is absent, live or expired but present, leaves
\* one entry for the key of the repository, with the new SessionID and
\* CreatedAt = LastUsedAt = now; no repository ever has two entries; an entry
\* leaves the mapping in a Clear only.
C17_KeyStateMachine == []SetLeavesOneEntry /\ [][OnlyClearRemoves]_vars

\* C18: Status returns no error, total = the number of entries and valid = the
\* number of entries whose age is within the TTL, so 0 <= valid <= total; the
\* entries it counts as valid are those Get returns for their repository.
C18_StatusCounts ==
    Usable =>
        LET st == Status.ret
        IN  /\ st.err = "nil"
            /\ st.total = Cardinality(DOMAIN cache.m)
            /\ st.valid = Cardinality({k \in DOMAIN cache.m : Age(cache.m[k]) <= ttl})
            /\ 0 <= st.valid /\ st.valid <= st.total
            /\ st.valid =
                  Cardinality({k \in DOMAIN cache.m :
                                  Get(cache.m[k].RepoPath).ret.session = <<cache.m[k]>>})

\* Two entries: one whose age is the TTL exactly, one that is older.
C18_Witness ==
    /\ Usable
    /\ Cardinality(DOMAIN cache.m) = 2
    /\ \E k \in DOMAIN cache.m : Age(cache.m[k]) = ttl
    /\ \E k \in DOMAIN cache.m : Age(cache.m[k]) > ttl
    /\ Status.ret.valid = 1

\* C19: when the repository cannot be resolved, Get returns an error and no
\* session, and Set returns an error, inserts nothing and does not write the
\* file; when it can, Get returns no error, whether the entry is absent, live
\* or expired.
C19_OnlyResolutionFails ==
    Usable =>
        /\ Get(NoRepo).ret.err = "norepo"
        /\ Get(NoRepo).ret.session = <<>>
        /\ \A id \in SessionIDs, io \in SaveOutcomes :
              LET o == Set(id, NoRepo, io)
              IN  /\ o.ret.err = "norepo"
                  /\ o.cache = cache
                  /\ o.disk = disk
                  /\ o.ret.io = "none"
        /\ \A r \in Repos : Get(r).ret.err = "nil"

\* One repository has a live entry, the other an expired one, and the file
\* is not what a save would write.
C19_Witness ==
    /\ Usable
    /\ \E r \in Repos : Returned[r] # <<>>
    /\ \E r \in Repos : KeyOf(r) \in DOMAIN cache.m /\ Expired(cache.m[KeyOf(r)])
    /\ disk # MarshalCache(cache)

\* C29: a Touch that succeeds stamps LastUsedAt of one entry, an entry that
\* carries the session ID, under whatever key it is stored, and leaves every
\* other entry as it was, also when several entries carry that session ID; no
\* entry is added or removed, and the file written holds the same.
C29_TouchExactlyOne ==
    Usable =>
        \A id \in SessionIDs : \A first \in Matching(id) :
            LET o == UpdateLastUsed(id, first, "ok")
                stamped == {k \in DOMAIN o.cache.m :
                               o.cache.m[k].LastUsedAt = TimeNow
                               /\ cache.m[k].LastUsedAt # TimeNow}
                changed == {k \in DOMAIN cache.m : o.cache.m[k] # cache.m[k]}
            IN  /\ o.ret.err = "nil"
                /\ DOMAIN o.cache.m = DOMAIN cache.m
                /\ Cardinality(changed) <= 1
                /\ changed = stamped
                /\ \A k \in changed : cache.m[k].SessionID = id
                /\ \E k \in Matching(id) : o.cache.m[k].LastUsedAt = TimeNow
                /\ o.disk = MarshalCache(o.cache)

\* Two entries loaded from the file carry the same session ID; one of them
\* has been touched, the other has not.
C29_Witness ==
    /\ Usable
    /\ lastWrite = "ok"
    /\ \E k1 \in DOMAIN cache.m, k2 \in DOMAIN cache.m :
          /\ k1 # k2
          /\ cache.m[k1].SessionID = cache.m[k2].SessionID
          /\ ~cache.m[k1].CreatedAt.mono /\ ~cache.m[k2].CreatedAt.mono
          /\ cache.m[k1].LastUsedAt.mono
          /\ ~cache.m[k2].LastUsedAt.mono

----------------------------------------------------------------------------
(* Claims about concurrent callers, checked under SpecConc and SpecLock.    *)

\* Between the return of Lock/RLock and the deferred unlock.
InCS(p) == pc[p] \in {"locked", "save", "unlock"}

\* C6: a Set, Touch or Clear that is between its lock and its unlock, its
\* write of the file included, is the only call inside; Get and Status calls
\* may be inside together.
C6_WritersExclude ==
    \A p \in Procs, q \in Procs :
        (p # q /\ InCS(p) /\ call[p].m \in Writers) => ~InCS(q)

\* A Get and a Status are inside at the same time.
C6_Witness ==
    \E p \in Procs, q \in Procs :
        /\ p # q
        /\ InCS(p) /\ call[p].m = "Get"
        /\ InCS(q) /\ call[q].m = "Status"

\* A goroutine that is in no call holds neither the read nor the write lock.
NoLockLeft == \A p \in Procs : pc[p] = "idle" => (p \notin rw.readers /\ rw.w # p)

\* C30: every Get, Set, Touch, Clear and Status has released its lock when it
\* returns, on every path (the repository does not resolve, no entry matches,
\* the save fails), and under fair scheduling every call a goroutine has
\* started returns.
C30_EveryCallReturns ==
    /\ []NoLockLeft
    /\ \A p \in Procs : (pc[p] # "idle") ~> (pc[p] = "idle")

\* A Set outside a repository has announced itself and waits for a Get, also
\* outside a repository, to release the read lock on its error return.
C30_Witness ==
    \E p \in Procs, q \in Procs :
        /\ p # q
        /\ pc[p] = "drain" /\ call[p].m = "Set" /\ call[p].root = NoRepo
        /\ pc[q] = "unlock" /\ call[q].m = "Get" /\ call[q].root = NoRepo

----------------------------------------------------------------------------
(* Claims about the diff size governor, checked under SpecDiff.             *)

Truncated == dIn.fn = "truncateDiffSmart" /\ dOut.done
Bounded == dIn.fn = "GetStagedDiffWithLimit" /\ dOut.done

\* C3: for a limit smaller than the diff, the excerpt truncateDiffSmart
\* returns, when it is not empty, ends at a line boundary of the diff: the
\* character of the diff that follows the excerpt is a newline.
C3_EndsAtLineBoundary ==
    (Truncated /\ dOut.excerpt # "")
        => Slice(dIn.diff, Len(dOut.excerpt), Len(dOut.excerpt) + 1) = NL

\* The budget in force: maxSize, or the default when maxSize <= 0.
Budget == IF dIn.in.maxSize <= 0 THEN DefaultMaxDiffSize ELSE dIn.in.maxSize

\* C4: a summary is longer than the budget by 200 bytes at most, whatever the
\* raw diff, the statistics text and the list of changed files.
C4_SummaryBounded ==
    (Bounded /\ dOut.ret.result # <<>> /\ dOut.ret.result[1].IsSummarized)
        => Len(dOut.ret.result[1].Diff) <= Budget + 200

\* The raw diff was retrieved, and is within the budget or above it.
WithinBudget == Bounded /\ ~dIn.in.diffErr /\ Len(dIn.in.diff) <= Budget
OverBudget == Bounded /\ ~dIn.in.diffErr /\ Len(dIn.in.diff) > Budget

\* C11: a raw diff no longer than the budget in force is returned unchanged,
\* with IsSummarized = false and OriginalSize = its length, and neither the
\* diff stat nor the list of changed files is asked for.
C11_WithinBudgetUnchanged ==
    WithinBudget =>
        /\ dOut.ret.err = "nil"
        /\ Len(dOut.ret.result) = 1
        /\ dOut.ret.result[1].Diff = dIn.in.diff
        /\ ~dOut.ret.result[1].IsSummarized
        /\ dOut.ret.result[1].OriginalSize = Len(dIn.in.diff)
        /\ dOut.ret.called = <<"diff">>

\* A diff of exactly the default budget, asked for with maxSize <= 0, while
\* the collaborators of the summary would fail.
C11_Witness ==
    /\ WithinBudget
    /\ dIn.in.maxSize <= 0
    /\ Len(dIn.in.diff) = DefaultMaxDiffSize
    /\ dIn.in.statErr
    /\ ~dOut.ret.result[1].IsSummarized

\* C12: a raw diff longer than the budget in force is returned with
\* IsSummarized = true and OriginalSize = the length of the raw diff.
C12_OverBudgetSize ==
    OverBudget =>
        /\ Len(dOut.ret.result) = 1
        /\ dOut.ret.result[1].IsSummarized
        /\ dOut.ret.result[1].OriginalSize = Len(dIn.in.diff)

\* A summary with an excerpt, shorter than the raw diff it stands for.
C12_Witness ==
    /\ OverBudget
    /\ RemainingSpace(dIn.in.diff, Budget, dIn.in) > 0
    /\ Len(dOut.ret.result[1].Diff) < Len(dIn.in.diff)
    /\ dOut.ret.result[1].OriginalSize = Len(dIn.in.diff)

\* The index of the last "\n@@" in the slice of the diff up to the limit.
LastHunkInSlice == LastIndex(Slice(dIn.diff, 0, dIn.maxLen), "\n@@")

\* The index in the diff at which the line of that hunk header ends.
HeaderLineEnd ==
    LET from == LastHunkInSlice + 1
        e == Index(Slice(dIn.diff, from, Len(dIn.diff)), NL)
    IN  IF e < 0 THEN Len(dIn.diff) ELSE from + e

\* C13: when the slice of the diff up to the limit holds a hunk header past
\* its midpoint, the excerpt is the diff up to the end of the line of the last
\* such header, also when the slice ends before that line does.
C13_EndsAtHunkHeaderLine ==
    (Truncated /\ LastHunkInSlice > dIn.maxLen \div 2)
        => dOut.excerpt = Slice(dIn.diff, 0, HeaderLineEnd)

\* C20: when the raw diff was retrieved and is over the budget, a summary is
\* returned without error whether or not the diff stat and the list of changed
\* files could be obtained; a fixed placeholder stands for each that could not.
C20_SummaryNotEscalated ==
    OverBudget =>
        /\ dOut.ret.err = "nil"
        /\ Len(dOut.ret.result) = 1
        /\ dOut.ret.result[1].IsSummarized
        /\ dIn.in.statErr
           => Index(dOut.ret.result[1].Diff,
                    "=== DIFF STAT ===\n(unable to get diff stat)\n") >= 0
        /\ dIn.in.filesErr
           => Index(dOut.ret.result[1].Diff,
                    "Files changed: 1\n\n=== CHANGED FILES ===\n"
                    \o "  - (unable to get file list)\n\n") >= 0

\* Both collaborators failed and the summary carries an excerpt.
C20_Witness ==
    /\ OverBudget
    /\ dIn.in.statErr /\ dIn.in.filesErr
    /\ dOut.ret.err = "nil"
    /\ Index(dOut.ret.result[1].Diff, "=== TRUNCATED DIFF ===\n") >= 0

\* C21: when git diff --staged fails, the failure is returned with no
\* result, after one attempt, and neither the diff stat nor the list of changed
\* files is asked for.
C21_DiffFailureReturned ==
    (Bounded /\ dIn.in.diffErr) =>
        /\ dOut.ret.err = "diff"
        /\ dOut.ret.result = <<>>
        /\ dOut.ret.called = <<"diff">>

\* The fetch failed while the other collaborators would have answered.
C21_Witness ==
    /\ Bounded
    /\ dIn.in.diffErr
    /\ ~dIn.in.statErr /\ ~dIn.in.filesErr
    /\ dOut.ret.err = "diff"

\* C22: with maxSize <= 0 the call returns what it returns with the default
\* budget of 32768 bytes on the same collaborator outputs: the same text,
\* IsSummarized and OriginalSize, and the same error if any.
C22_NonPositiveIsDefault ==
    (Bounded /\ dIn.in.maxSize <= 0) =>
        /\ DefaultMaxDiffSize = 32768
        /\ dOut.ret = GetStagedDiffWithLimit([dIn.in EXCEPT !.maxSize = DefaultMaxDiffSize])
        /\ dOut.ret.err = "nil" <=> ~dIn.in.diffErr

\* A negative maxSize and a diff that the default budget does not hold.
C22_Witness ==
    /\ Bounded
    /\ dIn.in.maxSize < 0
    /\ Len(dIn.in.diff) > DefaultMaxDiffSize
    /\ dOut.ret.result[1].IsSummarized

\* The text of the summary returned, and the space the claim leaves for the
\* excerpt: the budget minus what precedes the excerpt section minus 200.
Summary == dOut.ret.result[1].Diff
SpaceLeft == Budget - Len(SummaryHeader(dIn.in.diff, dIn.in)) - 200
ExcerptSection == "=== TRUNCATED DIFF ===\n"
ClosingMarker == "\n\n... [truncated] ...\n"

\* C24: when the budget minus the bytes written so far minus 200 is not
\* positive, the summary is the header, the sizes, the file list and the
\* statistics and holds neither the excerpt section nor the closing marker;
\* when it is positive, the excerpt section follows them and the closing
\* marker ends the summary.
C24_ExcerptOnlyWithSpace ==
    OverBudget =>
        /\ SpaceLeft <= 0
           => (/\ Summary = SummaryHeader(dIn.in.diff, dIn.in)
               /\ Index(Summary, ExcerptSection) = -1
               /\ Index(Summary, "[truncated]") = -1)
        /\ SpaceLeft > 0
           => (/\ Index(Summary, ExcerptSection) = Len(SummaryHeader(dIn.in.diff, dIn.in))
               /\ LastIndex(Summary, ClosingMarker) = Len(Summary) - Len(ClosingMarker))

\* One byte is left for the excerpt, and the summary carries the section.
C24_Witness ==
    /\ OverBudget
    /\ SpaceLeft = 1
    /\ Index(Summary, ExcerptSection) > 0

\* C25: when the last hunk header of the slice up to the limit is at or
\* before the midpoint, or there is none, the excerpt is the slice up to, and
\* without, its last newline, and it does not end inside a line.
C25_FallbackAtLastNewline ==
    (Truncated /\ LastHunkInSlice <= dIn.maxLen \div 2) =>
        LET slice == Slice(dIn.diff, 0, dIn.maxLen)
            lastNewline == LastIndex(slice, NL)
        IN  /\ lastNewline >= 0 => dOut.excerpt = Slice(slice, 0, lastNewline)
            /\ dOut.excerpt # ""
               => Slice(dIn.diff, Len(dOut.excerpt), Len(dOut.excerpt) + 1) = NL

\* C27: a summary with an excerpt is no longer than the budget, the excerpt
\* section and the closing marker included; what truncateDiffSmart returns is
\* a prefix of the diff of at most maxLen bytes.
C27_SummaryWithExcerptFits ==
    /\ (OverBudget /\ SpaceLeft > 0) => Len(Summary) <= Budget
    /\ Truncated =>
          /\ Len(dOut.excerpt) <= dIn.maxLen
          /\ dOut.excerpt = Slice(dIn.diff, 0, Len(dOut.excerpt))

\* The excerpt uses the space left up to the last line that fits.
C27_Witness ==
    /\ OverBudget
    /\ SpaceLeft > 8
    /\ Len(Summary) >= Budget - 165
    /\ Len(Summary) <= Budget - 155

----------------------------------------------------------------------------
(* Claims about the construction of the store, checked under SpecOnce.      *)

\* C14: whatever the number of GetCache calls and however they interleave,
\* the constructor and load() run once, every call returns the one instance,
\* loaded, and the TTL and the directory in force are those of the call that
\* constructed it, whatever the later calls pass.
C14_Singleton ==
    /\ Len(instance) <= 1
    /\ \A i \in 1..Len(instance) : instance[i].loads <= 1
    /\ once.done = 1 => (Len(instance) = 1 /\ instance[1].loads = 1)
    /\ constructed => ttl = instance[1].ttl
    /\ \A p \in Procs :
          got[p] # -1 => (got[p] = 1 /\ instance[1].loads = 1)
    /\ \A p \in Procs, q \in Procs :
          (got[p] # -1 /\ got[q] # -1) => got[p] = got[q]

\* One goroutine has its instance; another, which asked for a different TTL
\* and directory, read done = 0 before the first stored it and now holds the
\* mutex of the Once.
C14_Witness ==
    \E p \in Procs, q \in Procs :
        /\ p # q
        /\ got[p] = 1
        /\ pc[q] = "recheck"
        /\ once.done = 1
        /\ call[q].ttl # ttl
        /\ call[q].dir # instance[1].cachedir

----------------------------------------------------------------------------
(* Claims about the git hook, checked under SpecHook.                       *)

\* The hook file of a repository as the last call found it.
HookBefore(root) == hook.last.before[1][root]

\* Whatever the files, the repository and the file system's answers: a
\* successful Install is followed by IsInstalled = true, a successful
\* Uninstall by IsInstalled = false; an Install where the file exists, and an
\* Uninstall where it does not or is not a commit-gen hook (it does not
\* contain "commit-gen"), return an error and leave the files as they are.
HookContract(fs) ==
    \A root \in Repos, env \in HookEnvs, part \in Partials(HookScript(ExePath)) :
        LET i == Install(fs, root, env, part)
            u == Uninstall(fs, root, env)
        IN  /\ i.err = "nil" => IsInstalled(i.fs, root) = [installed |-> TRUE, err |-> "nil"]
            /\ u.err = "nil" => IsInstalled(u.fs, root) = [installed |-> FALSE, err |-> "nil"]
            /\ fs[root].exists => (i.err # "nil" /\ i.fs = fs)
            /\ (~fs[root].exists \/ ~IsOurs(fs[root].content)) =>
                  (u.err # "nil" /\ u.fs = fs)

\* C23: after a successful Install IsInstalled returns true, after a
\* successful Uninstall it returns false; Install returns an error and leaves
\* the hook file unchanged when one exists, and Uninstall returns an error and
\* deletes nothing when the hook file is missing or is not a commit-gen hook.
\* Stated of the calls that have run and of every call that could run next.
C23_HookLifecycle ==
    /\ HookContract(hook.fs)
    /\ hook.last.op \in {"Install", "Uninstall"} /\ hook.last.root # NoRepo =>
          LET root == hook.last.root
              is == IsInstalled(hook.fs, root)
          IN  /\ hook.last.op = "Install" /\ hook.last.err = "nil" =>
                    (is.installed /\ is.err = "nil")
              /\ hook.last.op = "Uninstall" /\ hook.last.err = "nil" =>
                    (~is.installed /\ is.err = "nil")
              /\ hook.last.op = "Install" /\ HookBefore(root).exists =>
                    (hook.last.err # "nil" /\ hook.fs = hook.last.before[1])
              /\ /\ hook.last.op = "Uninstall"
                 /\ (~HookBefore(root).exists \/ ~IsOurs(HookBefore(root).content))
                 => (hook.last.err # "nil" /\ hook.fs = hook.last.before[1])

\* An Install has just refused to replace the hook another tool had written
\* in /a, while commit-gen's own hook is installed in /b.
C23_Witness ==
    /\ hook.last.op = "Install" /\ hook.last.root = "/a"
    /\ hook.last.err = "exists"
    /\ hook.fs["/a"] = File("#!/bin/sh\nnpx lint-staged\n", "ok")
    /\ hook.fs["/b"] = File(HookScript(ExePath), "ok")

----------------------------------------------------------------------------
(* Claims about the server-mode run, checked under SpecGen.                 *)

\* Get returned a live record to the run.
Hit == gen.got # <<>> /\ gen.got[1].err = "nil" /\ gen.got[1].session # <<>>

HitOrder == <<"Get", "Touch", "SendMessage">>
MissOrder == <<"Get", "CreateSession", "Set", "Touch", "SendMessage">>

IsPrefix(s, t) == Len(s) <= Len(t) /\ s = SubSeq(t, 1, Len(s))

\* C26: the calls of a run are, in this order, Get; when Get returned no live
\* record (none, an expired one, or an error), one CreateSession and the Set of
\* its ID; Touch; SendMessage. A run that found a live record makes no
\* CreateSession. SendMessage is given the cached ID on a hit and the created
\* one on a miss. A run that stops, stops between two of these calls, and one
\* that returns a message has made them all.
C26_RunOrder ==
    /\ gen.got = <<>> => gen.log = <<>>
    /\ gen.got # <<>> =>
          /\ gen.log # <<>>
          /\ IsPrefix(gen.log, IF Hit THEN HitOrder ELSE MissOrder)
    /\ gen.sent # "" =>
          /\ gen.log = (IF Hit THEN HitOrder ELSE MissOrder)
          /\ gen.sent = (IF Hit THEN gen.got[1].session[1].SessionID ELSE gen.created)
    /\ gen.pc = "done" /\ gen.err \in {"nil", "send"} => gen.sent # ""
    /\ Hit => gen.created = ""

\* A run that Get gave no record has returned a message, some time after the
\* program was first started: it created a session, stored its ID for the
\* repository and sent the message to it.
C26_Witness ==
    /\ gen.pc = "done" /\ gen.err = "nil"
    /\ gen.got # <<>> /\ gen.got[1].err = "nil" /\ gen.got[1].session = <<>>
    /\ gen.log = MissOrder
    /\ gen.sent = gen.created
    /\ gen.root # NoRepo
    /\ hashRepoPath(gen.root) \in DOMAIN cache.m
    /\ cache.m[hashRepoPath(gen.root)].SessionID = gen.sent
    /\ now > StartTime

\* C28: the record Get handed out is the same, field by field, for as long as
\* the caller holds it: no later Touch writes to it.
C28_GetReturnsSnapshot ==
    gen.held # <<>> /\ gen.held[1].key \in DOMAIN cache.m =>
        cache.m[gen.held[1].key] = gen.held[1].snap

====
